---- MODULE Spec2Model ----
(***************************************************************************)
(* Model of the metasql query builder (lib/query.js, lib/database.js).     *)
(*                                                                         *)
(* Representation.                                                         *)
(*   - A JS string is a sequence of one-character strings, so that         *)
(*     startsWith / substring / replace are computed, not assumed.         *)
(*   - A JS scalar is a record [t, s, n] (t = "string" or "number").       *)
(*   - A JS object with significant key order (Condition, Delta, record)   *)
(*     is a sequence of [key, val] entries with distinct keys.             *)
(*   - The options object of a query is a function whose DOMAIN is the set *)
(*     of own properties; the options objects of SelectQuery instances     *)
(*     live in `heap` and are held by reference, because toObject() hands  *)
(*     the reference out.                                                  *)
(*   - SQL text is a sequence of tokens; sql.join(' ') is concatenation    *)
(*     of the token sequences of the parts (white space is not kept).      *)
(* A behaviour follows one query object from its factory call, or a series *)
(* of direct Database.count / Database.delete calls.  A then() whose       *)
(* compilation throws (Object.keys of null or undefined) sends nothing and *)
(* leaves error = "TypeError".                                             *)
(* The builder modelled is lib/query.js; an earlier revision of that file  *)
(* (without onConflict, with a returningClause string) is not modelled.    *)
(***************************************************************************)
EXTENDS Integers, Sequences, FiniteSets, TLC

VARIABLES
  kind,       \* which object the behaviour follows: none/select/insert/update/direct
  sel,        \* the SelectQuery instance ([table, fields, where, options ref])
  heap,       \* options objects of SelectQuery instances, by reference
  descr,      \* <<>> or <<d>>: the descriptor last returned by toObject()
  restored,   \* <<>> or <<q>>: the SelectQuery last returned by SelectQuery.from
  ins,        \* the InsertQuery instance
  upd,        \* the UpdateQuery instance
  sent,       \* the requests the last operation handed to db.query: <<>> or <<[by, sql, args]>>
  nQuery,     \* number of db.query calls so far
  nThen,      \* number of then() invocations so far
  op,         \* the last operation invoked: [name, arg, conds]
  error       \* what the last operation threw ("none" if it returned)

vars == <<kind, sel, heap, descr, restored, ins, upd, sent, nQuery, nThen, op, error>>

(***************************************************************************)
(* Bounds                                                                  *)
(***************************************************************************)
MaxThen == 2        \* then() invocations (or direct Database calls) per behaviour
MaxDoNothing == 2   \* doNothing() calls per InsertQuery

(***************************************************************************)
(* JS values                                                               *)
(***************************************************************************)
StrV(s) == [t |-> "string", s |-> s, n |-> 0]
NumV(n) == [t |-> "number", s |-> <<>>, n |-> n]

ArgUndefined == [t |-> "undefined", s |-> <<>>, list |-> <<>>, n |-> 0]
ArgString(s) == [t |-> "string", s |-> s, list |-> <<>>, n |-> 0]
ArgArray(l)  == [t |-> "array", s |-> <<>>, list |-> l, n |-> 0]
ArgNumber(n) == [t |-> "number", s |-> <<>>, list |-> <<>>, n |-> n]

\* an object with ordered keys, or one of the values Object.keys throws on
Obj(kv) == [t |-> "object", kv |-> kv]
Null == [t |-> "null", kv |-> <<>>]
Undefined == [t |-> "undefined", kv |-> <<>>]

Entry(k, v) == [key |-> k, val |-> v]
ObjectKeys(obj) == [i \in 1..Len(obj) |-> obj[i].key]
Restrict(f, S) == [k \in S |-> f[k]]
EmptyObject == [k \in {} |-> 0]

(***************************************************************************)
(* SQL tokens                                                              *)
(***************************************************************************)
Kw(w)    == [k |-> "kw",  w |-> w,  s |-> <<>>, n |-> 0]
Id(s)    == [k |-> "id",  w |-> "", s |-> s,    n |-> 0]   \* "name"
Raw(s)   == [k |-> "raw", w |-> "", s |-> s,    n |-> 0]   \* name
OpTok(s) == [k |-> "op",  w |-> "", s |-> s,    n |-> 0]
Ph(n)    == [k |-> "ph",  w |-> "", s |-> <<>>, n |-> n]   \* $n
NumTok(n) == [k |-> "num", w |-> "", s |-> <<>>, n |-> n]

RECURSIVE join(_, _)
\* Array.prototype.join over parts that are token sequences
join(parts, sep) ==
  IF Len(parts) = 0 THEN <<>>
  ELSE IF Len(parts) = 1 THEN parts[1]
  ELSE parts[1] \o sep \o join(Tail(parts), sep)

\* fields.map((field) => `"${field}"`).join(', ')
quoteEach(fields) == join([i \in 1..Len(fields) |-> <<Id(fields[i])>>], <<Kw(",")>>)

\* '"' + fields.join('", "') + '"' : an empty list still yields one pair of quotes
quoteJoined(fields) ==
  IF Len(fields) = 0 THEN <<Id(<<>>)>> ELSE quoteEach(fields)

(***************************************************************************)
(* whereValue, buildWhere, updates                                         *)
(***************************************************************************)
OPERATORS == << <<">", "=">>, <<"<", "=">>, <<"<", ">">>, <<">">>, <<"<">> >>

startsWith(s, p) == Len(s) >= Len(p) /\ SubSeq(s, 1, Len(p)) = p
substring(s, from) == SubSeq(s, from + 1, Len(s))
includes(s, c) == \E i \in 1..Len(s) : s[i] = c
replaceAll(s, c, d) == [i \in 1..Len(s) |-> IF s[i] = c THEN d ELSE s[i]]

whereValue(value) ==
  IF value.t = "string"
  THEN LET matching == {j \in 1..Len(OPERATORS) : startsWith(value.s, OPERATORS[j])}
       IN IF matching # {}
          THEN LET j == CHOOSE m \in matching : \A m2 \in matching : m <= m2
               IN [operator |-> OPERATORS[j],
                   value |-> StrV(substring(value.s, Len(OPERATORS[j])))]
          ELSE IF includes(value.s, "*") \/ includes(value.s, "?")
               THEN [operator |-> <<"L", "I", "K", "E">>,
                     value |-> StrV(replaceAll(replaceAll(value.s, "*", "%"), "?", "_"))]
               ELSE [operator |-> <<"=">>, value |-> value]
  ELSE [operator |-> <<"=">>, value |-> value]

RECURSIVE conjunctionOf(_, _, _, _)
\* the inner loop of buildWhere: keys k.. of one condition, counter at i
conjunctionOf(where, k, i, withQuotes) ==
  IF k > Len(where) THEN [parts |-> <<>>, args |-> <<>>, i |-> i]
  ELSE LET wv == whereValue(where[k].val)
           columnName == IF withQuotes THEN Id(where[k].key) ELSE Raw(where[k].key)
           rest == conjunctionOf(where, k + 1, i + 1, withQuotes)
       IN [parts |-> << <<columnName, OpTok(wv.operator), Ph(i)>> >> \o rest.parts,
           args |-> <<wv.value>> \o rest.args,
           i |-> rest.i]

RECURSIVE disjunctionOf(_, _, _, _)
\* the outer loop of buildWhere: conditions c.., counter at i
disjunctionOf(conditions, c, i, withQuotes) ==
  IF c > Len(conditions) THEN [parts |-> <<>>, args |-> <<>>]
  ELSE LET conj == conjunctionOf(conditions[c], 1, i, withQuotes)
           rest == disjunctionOf(conditions, c + 1, conj.i, withQuotes)
       IN [parts |-> <<join(conj.parts, <<Kw("AND")>>)>> \o rest.parts,
           args |-> conj.args \o rest.args]

buildWhere(conditions, firstArgIndex, withQuotes) ==
  LET d == disjunctionOf(conditions, 1, firstArgIndex, withQuotes)
  IN [clause |-> join(d.parts, <<Kw("OR")>>), args |-> d.args]

DigitChars == <<"0", "1", "2", "3", "4", "5", "6", "7", "8", "9">>

RECURSIVE digits(_)
digits(n) == IF n < 10 THEN <<DigitChars[n + 1]>>
             ELSE digits(n \div 10) \o <<DigitChars[(n % 10) + 1]>>

\* value.toString() of a scalar
toString(value) == IF value.t = "number" THEN StrV(digits(value.n)) ELSE value

RECURSIVE assignmentsOf(_, _, _)
\* the loop of updates: keys k.. of the delta, counter at i
assignmentsOf(delta, k, i) ==
  IF k > Len(delta) THEN [parts |-> <<>>, args |-> <<>>]
  ELSE LET rest == assignmentsOf(delta, k + 1, i + 1)
       IN [parts |-> << <<Id(delta[k].key), OpTok(<<"=">>), Ph(i)>> >> \o rest.parts,
           args |-> <<toString(delta[k].val)>> \o rest.args]

\* updates that numbers its placeholders from 1 whatever the offset
updatesFromOne(delta, firstArgIndex) ==
  IF delta.t # "object"
  THEN [throws |-> TRUE, clause |-> <<>>, args |-> <<>>]
  ELSE LET a == assignmentsOf(delta.kv, 1, 1)
       IN [throws |-> FALSE, clause |-> join(a.parts, <<Kw(",")>>), args |-> a.args]

\* delta is [t, kv]: t = "object" with entries kv, or "null" / "undefined",
\* on which Object.keys throws a TypeError
updates(delta, firstArgIndex) ==
  IF delta.t # "object"
  THEN [throws |-> TRUE, clause |-> <<>>, args |-> <<>>]
  ELSE LET a == assignmentsOf(delta.kv, 1, firstArgIndex)
       IN [throws |-> FALSE, clause |-> join(a.parts, <<Kw(",")>>), args |-> a.args]

(***************************************************************************)
(* Inputs                                                                  *)
(***************************************************************************)
A == <<"a">>
B == <<"b">>
C == <<"c">>
STAR == <<"*">>
TABLE == <<"t">>

CondGe == <<Entry(A, StrV(<<">", "=", "5">>))>>                 \* {a: '>=5'}
CondTwo == <<Entry(A, NumV(1)), Entry(B, StrV(<<"x", "*">>))>>  \* {a: 1, b: 'x*'}
CondNe == <<Entry(C, StrV(<<"<", ">", "q">>))>>                 \* {c: '<>q'}
CondNoKey == <<>>                                               \* {}

ConditionLists == {<<>>, <<CondGe>>, <<CondTwo, CondNe>>, <<CondNoKey>>}

FieldsUndefined == [t |-> "undefined", list |-> <<>>, obj |-> <<>>]
FieldsArray(l) == [t |-> "array", list |-> l, obj |-> <<>>]
FieldsObject(o) == [t |-> "object", list |-> <<>>, obj |-> o]

\* the (fields, conditions) argument lists of Database.select
SelectInputs ==
  { <<FieldsUndefined, <<>> >>,
    <<FieldsArray(<<A, B>>), <<>> >>,
    <<FieldsArray(<<A, B>>), <<CondTwo, CondNe>> >>,
    <<FieldsArray(<<STAR>>), <<CondNoKey>> >>,
    <<FieldsObject(CondGe), <<CondNe>> >> }

FieldArgs == {ArgString(A), ArgArray(<<B, A>>)}      \* order / desc
LimitArgs == {ArgNumber(0), ArgNumber(5)}             \* limit
OffsetArgs == {ArgNumber(3)}                          \* offset

RecordOne == <<Entry(A, NumV(1))>>                                      \* {a: 1}
RecordThree == <<Entry(A, NumV(1)), Entry(B, NumV(2)), Entry(C, NumV(3))>>
Records == {RecordOne, RecordThree}

DeltaTwo == <<Entry(A, NumV(12)), Entry(B, StrV(<<"x">>))>>             \* {a: 12, b: 'x'}

\* the (delta, conditions) argument lists of Database.update; an omitted
\* delta is "undefined"
UpdateInputs ==
  { <<Undefined, <<>> >>,
    <<Null, <<CondGe>> >>,
    <<Obj(<<>>), <<CondGe>> >>,
    <<Obj(RecordOne), <<>> >>,
    <<Obj(RecordOne), <<CondNoKey>> >>,
    <<Obj(RecordOne), <<CondGe>> >>,
    <<Obj(DeltaTwo), <<CondTwo, CondNe>> >> }

ID == <<"i", "d">>
ReturningArgs == {ArgString(ID), ArgArray(<<A, B>>), ArgArray(<<>>)}
ConflictArgs == {ArgString(A), ArgArray(<<A, B>>)}
ExcludeArgs == {ArgUndefined, ArgString(B), ArgArray(<<B>>), ArgArray(<<C>>),
                ArgArray(<<<<"!", "b">>>>), ArgArray(<<>>)}

(***************************************************************************)
(* SelectQuery                                                             *)
(***************************************************************************)
NoSelect == [table |-> <<>>, fields |-> <<>>, where |-> <<>>, options |-> 0]

\* constructor(db, table, fields, ...where); Query sets this.options = {}
SelectQuery(table, fields, where, ref) ==
  [table |-> table, fields |-> fields, where |-> where, options |-> ref]

\* typeof field === 'string' ? [field] : field
fieldList(field) == IF field.t = "string" THEN <<field.s>> ELSE field.list

order(options, field) ==
  LET o == IF "desc" \in DOMAIN options
           THEN Restrict(options, DOMAIN options \ {"desc"}) ELSE options
  IN ("order" :> fieldList(field)) @@ o

\* desc that leaves a previous order directive in place
descKeepsOrder(options, field) == ("desc" :> fieldList(field)) @@ options

desc(options, field) ==
  LET o == IF "order" \in DOMAIN options
           THEN Restrict(options, DOMAIN options \ {"order"}) ELSE options
  IN ("desc" :> fieldList(field)) @@ o

limit(options, count) == ("limit" :> count.n) @@ options

offset(options, count) == ("offset" :> count.n) @@ options

\* the statement SelectQuery.then compiles: [sql, args]
SelectCompile(q, options) ==
  LET names == IF Len(q.fields) > 0 /\ q.fields[1] = STAR
               THEN <<Kw("*")>> ELSE quoteJoined(q.fields)
      head == <<Kw("SELECT")>> \o names \o <<Kw("FROM"), Id(q.table)>>
      cond == buildWhere(q.where, 1, TRUE)
      wherePart == IF Len(q.where) # 0 THEN <<Kw("WHERE")>> \o cond.clause ELSE <<>>
      args == IF Len(q.where) # 0 THEN cond.args ELSE <<>>
      orderPart == IF "order" \in DOMAIN options
                   THEN <<Kw("ORDER BY")>> \o quoteJoined(options.order) ELSE <<>>
      descPart == IF "desc" \in DOMAIN options
                  THEN <<Kw("ORDER BY")>> \o quoteJoined(options.desc) \o <<Kw("DESC")>>
                  ELSE <<>>
      limitPart == IF "limit" \in DOMAIN options /\ options.limit # 0
                   THEN <<Kw("LIMIT"), NumTok(options.limit)>> ELSE <<>>
      offsetPart == IF "offset" \in DOMAIN options /\ options.offset # 0
                    THEN <<Kw("OFFSET"), NumTok(options.offset)>> ELSE <<>>
  IN [sql |-> head \o wherePart \o orderPart \o descPart \o limitPart \o offsetPart,
      args |-> args]

\* the descriptor: fields and conditions are copied, options is the reference
toObject(q) ==
  [table |-> q.table,
   fields |-> [i \in 1..Len(q.fields) |-> q.fields[i]],
   where |-> [i \in 1..Len(q.where) |-> q.where[i]],
   options |-> q.options]

\* Object.assign(target, source)
objectAssign(target, source) == source @@ target

\* from that does not carry the descriptor's options over
SelectQueryFromNoOptions(h, metadata) ==
  LET conditions == [i \in 1..Len(metadata.where) |-> metadata.where[i]]
      ref == Len(h) + 1
      query == SelectQuery(metadata.table, metadata.fields, conditions, ref)
  IN [query |-> query, heap |-> Append(h, EmptyObject)]

\* SelectQuery.from: a new instance whose own options object, allocated at
\* the next free reference of h, receives the descriptor's options
SelectQueryFrom(h, metadata) ==
  LET conditions == [i \in 1..Len(metadata.where) |-> metadata.where[i]]
      ref == Len(h) + 1
      query == SelectQuery(metadata.table, metadata.fields, conditions, ref)
  IN [query |-> query,
      heap |-> Append(h, objectAssign(EmptyObject, h[metadata.options]))]

(***************************************************************************)
(* Database: the executor and the factories                                *)
(***************************************************************************)
Op(name, arg, conds) == [name |-> name, arg |-> arg, conds |-> conds]
Request(by, sql, args) == [by |-> by, sql |-> sql, args |-> args]

\* Database.query(sql, values): hands the request to the pool
DatabaseQuery(by, sql, args) ==
  /\ sent' = <<Request(by, sql, args)>>
  /\ nQuery' = nQuery + 1

\* an operation that does not reach Database.query
NoQuery ==
  /\ sent' = <<>>
  /\ nQuery' = nQuery

\* Database.select(table, fields = ['*'], ...conditions)
DatabaseSelect(fields, conditions) ==
  LET f == IF fields.t = "undefined" THEN FieldsArray(<<STAR>>) ELSE fields
  IN IF f.t = "array"
     THEN SelectQuery(TABLE, f.list, conditions, 1)
     ELSE SelectQuery(TABLE, <<STAR>>, <<f.obj>> \o conditions, 1)

Select ==
  /\ kind = "none"
  /\ \E input \in SelectInputs :
       /\ sel' = DatabaseSelect(input[1], input[2])
       /\ op' = Op("Database.select", ArgUndefined, input[2])
  /\ kind' = "select"
  /\ heap' = <<EmptyObject>>
  /\ error' = "none"
  /\ NoQuery
  /\ UNCHANGED <<descr, restored, ins, upd, nThen>>

\* the configuration calls rewrite the options object the query refers to
SelectOrder ==
  /\ kind = "select"
  /\ \E arg \in FieldArgs :
       /\ heap' = [heap EXCEPT ![sel.options] = order(heap[sel.options], arg)]
       /\ op' = Op("SelectQuery.order", arg, <<>>)
  /\ error' = "none"
  /\ NoQuery
  /\ UNCHANGED <<kind, sel, descr, restored, ins, upd, nThen>>

SelectDesc ==
  /\ kind = "select"
  /\ \E arg \in FieldArgs :
       /\ heap' = [heap EXCEPT ![sel.options] = desc(heap[sel.options], arg)]
       /\ op' = Op("SelectQuery.desc", arg, <<>>)
  /\ error' = "none"
  /\ NoQuery
  /\ UNCHANGED <<kind, sel, descr, restored, ins, upd, nThen>>

SelectLimit ==
  /\ kind = "select"
  /\ \E arg \in LimitArgs :
       /\ heap' = [heap EXCEPT ![sel.options] = limit(heap[sel.options], arg)]
       /\ op' = Op("SelectQuery.limit", arg, <<>>)
  /\ error' = "none"
  /\ NoQuery
  /\ UNCHANGED <<kind, sel, descr, restored, ins, upd, nThen>>

SelectOffset ==
  /\ kind = "select"
  /\ \E arg \in OffsetArgs :
       /\ heap' = [heap EXCEPT ![sel.options] = offset(heap[sel.options], arg)]
       /\ op' = Op("SelectQuery.offset", arg, <<>>)
  /\ error' = "none"
  /\ NoQuery
  /\ UNCHANGED <<kind, sel, descr, restored, ins, upd, nThen>>

SelectThen ==
  /\ kind = "select"
  /\ nThen < MaxThen
  /\ LET c == SelectCompile(sel, heap[sel.options])
     IN DatabaseQuery("select", c.sql, c.args)
  /\ nThen' = nThen + 1
  /\ op' = Op("SelectQuery.then", ArgUndefined, <<>>)
  /\ error' = "none"
  /\ UNCHANGED <<kind, sel, heap, descr, restored, ins, upd>>

SelectToObject ==
  /\ kind = "select"
  /\ descr' = <<toObject(sel)>>
  /\ op' = Op("SelectQuery.toObject", ArgUndefined, <<>>)
  /\ error' = "none"
  /\ NoQuery
  /\ UNCHANGED <<kind, sel, heap, restored, ins, upd, nThen>>

\* SelectQuery.from(db, descr); the instance restored before is dropped and
\* its options object freed
SelectFrom ==
  /\ kind = "select"
  /\ descr # <<>>
  /\ LET r == SelectQueryFrom(<<heap[1]>>, descr[1])
     IN /\ restored' = <<r.query>>
        /\ heap' = r.heap
  /\ op' = Op("SelectQuery.from", ArgUndefined, <<>>)
  /\ error' = "none"
  /\ NoQuery
  /\ UNCHANGED <<kind, sel, descr, ins, upd, nThen>>

(***************************************************************************)
(* UpsertQuery, InsertQuery                                                *)
(***************************************************************************)
\* Array.isArray(fields) ? fields : [fields]
asArray(fields) == IF fields.t = "array" THEN fields.list ELSE <<fields.s>>

\* UpsertQuery.returning, on the options object
returning(options, fields) == ("returning" :> asArray(fields)) @@ options

\* the RETURNING part pushed by InsertQuery.then and UpdateQuery.then
returningPart(options) ==
  IF "returning" \in DOMAIN options
  THEN <<Kw("RETURNING")>> \o quoteEach(options.returning) ELSE <<>>

NoInsert == [table |-> <<>>, record |-> <<>>, options |-> EmptyObject, conflictClause |-> <<>>]

\* constructor(db, table, record); conflictClause is not set (undefined)
InsertQuery(table, record) ==
  [table |-> table, record |-> record, options |-> EmptyObject, conflictClause |-> <<>>]

\* onConflict without its guard
onConflictNeverThrows(options) == FALSE

\* the guard of onConflict: this.options.onConflict is already set

onConflictThrows(options) == "onConflict" \in DOMAIN options

\* the assignment of onConflict once the guard has passed
onConflict(options, fields) ==
  ("onConflict" :> [fields |-> asArray(fields)]) @@ options

\* the fields of doUpdate's exclude argument, markers stripped
excludeList(exclude) ==
  IF exclude.t = "undefined" THEN <<>>
  ELSE LET fields == asArray(exclude)
       IN [i \in 1..Len(fields) |->
             IF startsWith(fields[i], <<"!">>) THEN substring(fields[i], 1) ELSE fields[i]]

doNothing(options) ==
  [options EXCEPT !.onConflict = ("action" :> "nothing") @@ options.onConflict]

doUpdate(options, exclude) ==
  [options EXCEPT !.onConflict =
     ("action" :> "update") @@ ("excludeFields" :> excludeList(exclude)) @@ options.onConflict]

\* {...record} of a value that may be undefined
spread(v) == IF v.t = "object" THEN v.kv ELSE <<>>

RECURSIVE reduceFrom(_, _, _, _)
\* Object.keys(this.record).reduce(callback, {}) from key k with accumulator
\* acc: the callback returns nothing (undefined) on an excluded key
reduceFrom(record, k, acc, excludeFields) ==
  IF k > Len(record) THEN acc
  ELSE LET fieldKey == record[k].key
           result == IF ~ (\E j \in 1..Len(excludeFields) : excludeFields[j] = fieldKey)
                     THEN Obj(spread(acc) \o <<Entry(fieldKey, record[k].val)>>)
                     ELSE Undefined
       IN reduceFrom(record, k + 1, result, excludeFields)

\* the delta of the DO UPDATE branch
conflictDelta(record, excludeFields) ==
  IF Len(excludeFields) # 0
  THEN reduceFrom(record, 1, Obj(<<>>), excludeFields)
  ELSE Obj(record)

\* what InsertQuery.then compiles: [throws, sql, args]
InsertCompile(q) ==
  LET keys == ObjectKeys(q.record)
      data == [i \in 1..Len(keys) |-> q.record[i].val]
      nums == [i \in 1..Len(keys) |-> <<Ph(i)>>]
      head == <<Kw("INSERT INTO"), Id(q.table), Kw("(")>> \o quoteJoined(keys)
              \o <<Kw(")"), Kw("VALUES"), Kw("(")>> \o join(nums, <<Kw(",")>>)
              \o <<Kw(")")>>
      hasConflict == "onConflict" \in DOMAIN q.options
      oc == q.options.onConflict
      action == IF "action" \in DOMAIN oc THEN oc.action ELSE "undefined"
      conflictHead == <<Kw("ON CONFLICT"), Kw("(")>> \o quoteEach(oc.fields) \o <<Kw(")")>>
      upd0 == updates(conflictDelta(q.record, oc.excludeFields), Len(data) + 1)
      tail == returningPart(q.options)
  IN IF ~ hasConflict
     THEN [throws |-> FALSE, sql |-> head \o tail, args |-> data]
     ELSE IF action = "nothing"
     THEN [throws |-> FALSE, sql |-> head \o conflictHead \o <<Kw("DO NOTHING")>> \o tail,
           args |-> data]
     ELSE IF action = "update"
     THEN IF upd0.throws
          THEN [throws |-> TRUE, sql |-> <<>>, args |-> <<>>]
          ELSE [throws |-> FALSE,
                sql |-> head \o conflictHead \o <<Kw("DO UPDATE"), Kw("SET")>>
                        \o upd0.clause \o tail,
                args |-> data \o upd0.args]
     ELSE [throws |-> FALSE, sql |-> head \o conflictHead \o tail, args |-> data]

Insert ==
  /\ kind = "none"
  /\ \E record \in Records : ins' = InsertQuery(TABLE, record)
  /\ kind' = "insert"
  /\ op' = Op("Database.insert", ArgUndefined, <<>>)
  /\ error' = "none"
  /\ NoQuery
  /\ UNCHANGED <<sel, heap, descr, restored, upd, nThen>>

InsertReturning ==
  /\ kind = "insert"
  /\ \E fields \in ReturningArgs :
       /\ ins' = [ins EXCEPT !.options = returning(ins.options, fields)]
       /\ op' = Op("UpsertQuery.returning", fields, <<>>)
  /\ error' = "none"
  /\ NoQuery
  /\ UNCHANGED <<kind, sel, heap, descr, restored, upd, nThen>>

InsertOnConflict ==
  /\ kind = "insert"
  /\ \E fields \in ConflictArgs :
       /\ IF onConflictThrows(ins.options)
          THEN /\ error' = "On conflict clause is already specified"
               /\ ins' = ins
          ELSE /\ error' = "none"
               /\ ins' = [ins EXCEPT !.options = onConflict(ins.options, fields)]
       /\ op' = Op("InsertQuery.onConflict", fields, <<>>)
  /\ NoQuery
  /\ UNCHANGED <<kind, sel, heap, descr, restored, upd, nThen>>

\* doNothing of the configurator onConflict returned
InsertDoNothing ==
  /\ kind = "insert"
  /\ "onConflict" \in DOMAIN ins.options
  /\ Len(ins.conflictClause) < MaxDoNothing
  /\ ins' = [ins EXCEPT !.options = doNothing(ins.options),
                        !.conflictClause = ins.conflictClause \o <<Kw("DO NOTHING")>>]
  /\ op' = Op("onConflict.doNothing", ArgUndefined, <<>>)
  /\ error' = "none"
  /\ NoQuery
  /\ UNCHANGED <<kind, sel, heap, descr, restored, upd, nThen>>

\* doUpdate of the configurator onConflict returned
InsertDoUpdate ==
  /\ kind = "insert"
  /\ "onConflict" \in DOMAIN ins.options
  /\ \E exclude \in ExcludeArgs :
       /\ ins' = [ins EXCEPT !.options = doUpdate(ins.options, exclude)]
       /\ op' = Op("onConflict.doUpdate", exclude, <<>>)
  /\ error' = "none"
  /\ NoQuery
  /\ UNCHANGED <<kind, sel, heap, descr, restored, upd, nThen>>

InsertThen ==
  /\ kind = "insert"
  /\ nThen < MaxThen
  /\ LET c == InsertCompile(ins)
     IN IF c.throws
        THEN error' = "TypeError" /\ NoQuery
        ELSE error' = "none" /\ DatabaseQuery("insert", c.sql, c.args)
  /\ nThen' = nThen + 1
  /\ op' = Op("InsertQuery.then", ArgUndefined, <<>>)
  /\ UNCHANGED <<kind, sel, heap, descr, restored, ins, upd>>

(***************************************************************************)
(* UpdateQuery                                                             *)
(***************************************************************************)
NoUpdate == [table |-> <<>>, delta |-> Null, conditions |-> <<>>, options |-> EmptyObject]

\* constructor(db, table, delta, ...conditions)
UpdateQuery(table, delta, conditions) ==
  [table |-> table, delta |-> delta, conditions |-> conditions, options |-> EmptyObject]

\* Database.update(table, delta = null, ...conditions)
DatabaseUpdate(delta, conditions) ==
  UpdateQuery(TABLE, IF delta.t = "undefined" THEN Null ELSE delta, conditions)

\* what UpdateQuery.then compiles: [throws, sql, args]
UpdateCompile(q) ==
  LET upd0 == updates(q.delta, 1)
      cond == buildWhere(q.conditions, Len(upd0.args) + 1, TRUE)
  IN IF upd0.throws
     THEN [throws |-> TRUE, sql |-> <<>>, args |-> <<>>]
     ELSE [throws |-> FALSE,
           sql |-> <<Kw("UPDATE"), Id(q.table), Kw("SET")>> \o upd0.clause
                   \o <<Kw("WHERE")>> \o cond.clause \o returningPart(q.options),
           args |-> upd0.args \o cond.args]

Update ==
  /\ kind = "none"
  /\ \E input \in UpdateInputs :
       /\ upd' = DatabaseUpdate(input[1], input[2])
       /\ op' = Op("Database.update", ArgUndefined, input[2])
  /\ kind' = "update"
  /\ error' = "none"
  /\ NoQuery
  /\ UNCHANGED <<sel, heap, descr, restored, ins, nThen>>

UpdateReturning ==
  /\ kind = "update"
  /\ \E fields \in ReturningArgs :
       /\ upd' = [upd EXCEPT !.options = returning(upd.options, fields)]
       /\ op' = Op("UpsertQuery.returning", fields, <<>>)
  /\ error' = "none"
  /\ NoQuery
  /\ UNCHANGED <<kind, sel, heap, descr, restored, ins, nThen>>

UpdateThen ==
  /\ kind = "update"
  /\ nThen < MaxThen
  /\ LET c == UpdateCompile(upd)
     IN IF c.throws
        THEN error' = "TypeError" /\ NoQuery
        ELSE error' = "none" /\ DatabaseQuery("update", c.sql, c.args)
  /\ nThen' = nThen + 1
  /\ op' = Op("UpdateQuery.then", ArgUndefined, <<>>)
  /\ UNCHANGED <<kind, sel, heap, descr, restored, ins, upd>>

(***************************************************************************)
(* Database.count, Database.delete                                         *)
(***************************************************************************)
\* the statement Database.count sends
CountCompile(conditions) ==
  LET w == buildWhere(conditions, 1, TRUE)
  IN [sql |-> <<Kw("SELECT"), Kw("count(*)"), Kw("FROM"), Id(TABLE)>>
              \o (IF Len(w.clause) # 0 THEN <<Kw("WHERE")>> \o w.clause ELSE <<>>),
      args |-> w.args]

\* the statement Database.delete sends
DeleteCompile(conditions) ==
  LET w == buildWhere(conditions, 1, TRUE)
  IN [sql |-> <<Kw("DELETE FROM"), Id(TABLE), Kw("WHERE")>> \o w.clause,
      args |-> w.args]

Count ==
  /\ kind \in {"none", "direct"}
  /\ nQuery < MaxThen
  /\ \E conditions \in ConditionLists :
       /\ LET c == CountCompile(conditions) IN DatabaseQuery("count", c.sql, c.args)
       /\ op' = Op("Database.count", ArgUndefined, conditions)
  /\ kind' = "direct"
  /\ error' = "none"
  /\ UNCHANGED <<sel, heap, descr, restored, ins, upd, nThen>>

Delete ==
  /\ kind \in {"none", "direct"}
  /\ nQuery < MaxThen
  /\ \E conditions \in ConditionLists :
       /\ LET c == DeleteCompile(conditions) IN DatabaseQuery("delete", c.sql, c.args)
       /\ op' = Op("Database.delete", ArgUndefined, conditions)
  /\ kind' = "direct"
  /\ error' = "none"
  /\ UNCHANGED <<sel, heap, descr, restored, ins, upd, nThen>>

(***************************************************************************)
(* Specification                                                           *)
(***************************************************************************)
Init ==
  /\ kind = "none"
  /\ sel = NoSelect
  /\ heap = <<>>
  /\ descr = <<>>
  /\ restored = <<>>
  /\ ins = NoInsert
  /\ upd = NoUpdate
  /\ sent = <<>>
  /\ nQuery = 0
  /\ nThen = 0
  /\ op = Op("none", ArgUndefined, <<>>)
  /\ error = "none"

Next ==
  \/ Select
  \/ SelectOrder
  \/ SelectDesc
  \/ SelectLimit
  \/ SelectOffset
  \/ SelectThen
  \/ SelectToObject
  \/ SelectFrom
  \/ Insert
  \/ InsertReturning
  \/ InsertOnConflict
  \/ InsertDoNothing
  \/ InsertDoUpdate
  \/ InsertThen
  \/ Update
  \/ UpdateReturning
  \/ UpdateThen
  \/ Count
  \/ Delete

Spec == Init /\ [][Next]_vars

(***************************************************************************)
(* Reading a dispatched statement                                          *)
(***************************************************************************)
HasKw(sql, w) == \E i \in 1..Len(sql) : sql[i] = Kw(w)
KwCount(sql, w) == Cardinality({i \in 1..Len(sql) : sql[i] = Kw(w)})
KwIndex(sql, w) == CHOOSE i \in 1..Len(sql) : sql[i] = Kw(w)
IsPh(t) == t.k = "ph"

\* the placeholder numbers of a token sequence, left to right
Placeholders(sql) ==
  LET phs == SelectSeq(sql, IsPh) IN [i \in 1..Len(phs) |-> phs[i].n]

\* the tokens after keyword w
After(sql, w) == SubSeq(sql, KwIndex(sql, w) + 1, Len(sql))

\* the tokens before keyword w, or all of them if w does not occur
Before(sql, w) == IF HasKw(sql, w) THEN SubSeq(sql, 1, KwIndex(sql, w) - 1) ELSE sql

\* the list a "string | Array<string>" argument stands for
ArgList(arg) == IF arg.t = "array" THEN arg.list ELSE <<arg.s>>

\* key = $first, key = $first+1, ... over the entries kv
Assignments(kv, first) ==
  join([j \in 1..Len(kv) |-> <<Id(kv[j].key), OpTok(<<"=">>), Ph(first + j - 1)>>],
       <<Kw(",")>>)

(***************************************************************************)
(* C1: the DO UPDATE SET clause of a resolved INSERT assigns exactly the   *)
(* record's fields not named in exclude, in record order, with             *)
(* placeholders from (number of record fields + 1), and its arguments      *)
(* follow the INSERT's value arguments.                                    *)
(***************************************************************************)
C1_DoUpdateSetsAllNonExcluded ==
  (/\ op.name = "InsertQuery.then"
   /\ "onConflict" \in DOMAIN ins.options
   /\ "action" \in DOMAIN ins.options.onConflict
   /\ ins.options.onConflict.action = "update")
  => LET excluded == ins.options.onConflict.excludeFields
         Kept(e) == \A j \in 1..Len(excluded) : excluded[j] # e.key
         kept == SelectSeq(ins.record, Kept)
         n == Len(ins.record)
     IN /\ Len(sent) = 1
        /\ Before(After(sent[1].sql, "SET"), "RETURNING") = Assignments(kept, n + 1)
        /\ sent[1].args = [i \in 1..n |-> ins.record[i].val]
                          \o [j \in 1..Len(kept) |-> toString(kept[j].val)]

(***************************************************************************)
(* C2: resolving an UPDATE whose Delta is empty, or whose Conditions are   *)
(* empty or without any key, is rejected and nothing is dispatched.        *)
(***************************************************************************)
C2_InvalidUpdateRejected ==
  (/\ op.name = "UpdateQuery.then"
   /\ \/ upd.delta.t # "object"
      \/ Len(upd.delta.kv) = 0
      \/ \A c \in 1..Len(upd.conditions) : Len(upd.conditions[c]) = 0)
  => (error # "none" /\ sent = <<>>)

(***************************************************************************)
(* C3: in every dispatched statement the placeholders read left to right   *)
(* are $1..$k, k the number of arguments; an UPDATE's WHERE placeholders   *)
(* start at (number of SET assignments + 1) and an INSERT's DO UPDATE SET  *)
(* placeholders at (number of inserted columns + 1).                       *)
(***************************************************************************)
C3_PlaceholdersContiguous ==
  \A r \in 1..Len(sent) :
    LET sql == sent[r].sql IN
    /\ Placeholders(sql) = [i \in 1..Len(sent[r].args) |-> i]
    /\ (sent[r].by = "update" /\ Placeholders(After(sql, "WHERE")) # <<>>)
         => Placeholders(After(sql, "WHERE"))[1] = Len(upd.delta.kv) + 1
    /\ (sent[r].by = "insert" /\ HasKw(sql, "DO UPDATE")
          /\ Placeholders(After(sql, "SET")) # <<>>)
         => Placeholders(After(sql, "SET"))[1] = Len(ins.record) + 1

C3_Witness ==
  /\ Len(sent) = 1
  /\ sent[1].by = "insert"
  /\ HasKw(sent[1].sql, "DO UPDATE")
  /\ HasKw(sent[1].sql, "RETURNING")
  /\ Len(sent[1].args) = 6

(***************************************************************************)
(* C4: once toObject() has returned a descriptor, no later call on the     *)
(* query changes any part of the descriptor, its options included.         *)
(***************************************************************************)
DescriptorValue ==
  [table |-> descr[1].table, fields |-> descr[1].fields, where |-> descr[1].where,
   options |-> heap[descr[1].options]]

C4_DescriptorIndependent ==
  [][(descr # <<>> /\ descr' = descr) => DescriptorValue' = DescriptorValue]_vars

(***************************************************************************)
(* C5: the RETURNING clause of the compiled INSERT / UPDATE reflects only  *)
(* the last returning(...) call: exactly its quoted fields, and no         *)
(* RETURNING keyword at all when that call passed an empty list.           *)
(***************************************************************************)
C5_ReturningLastCallWins ==
  (op.name = "UpsertQuery.returning")
  => LET c == IF kind = "insert" THEN InsertCompile(ins) ELSE UpdateCompile(upd)
         fields == ArgList(op.arg)
     IN (~ c.throws)
        => IF fields = <<>>
           THEN ~ HasKw(c.sql, "RETURNING")
           ELSE /\ KwCount(c.sql, "RETURNING") = 1
                /\ After(c.sql, "RETURNING")
                     = join([i \in 1..Len(fields) |-> <<Id(fields[i])>>], <<Kw(",")>>)

(***************************************************************************)
(* C6: a SELECT, count or DELETE with zero Conditions is no error and      *)
(* dispatches a statement without WHERE keyword and without arguments.     *)
(***************************************************************************)
C6_ZeroConditionsMatchEveryRow ==
  (\/ op.name = "SelectQuery.then" /\ Len(sel.where) = 0
   \/ op.name \in {"Database.count", "Database.delete"} /\ Len(op.conds) = 0)
  => /\ error = "none"
     /\ Len(sent) = 1
     /\ ~ HasKw(sent[1].sql, "WHERE")
     /\ sent[1].args = <<>>

(***************************************************************************)
(* C7: configuration issues no executor call and every then() issues       *)
(* exactly one, so the number of executor calls always equals the number   *)
(* of resolutions so far.                                                  *)
(***************************************************************************)
C7_CallsEqualResolutions ==
  /\ kind \in {"select", "insert", "update"} => nQuery = nThen
  /\ op.name \in {"SelectQuery.then", "InsertQuery.then", "UpdateQuery.then"}
       <=> Len(sent) = 1 /\ kind # "direct"

(***************************************************************************)
(* C8: after any order / desc calls at most one of options.order and       *)
(* options.desc is set, it is the one the last call gave, and the compiled *)
(* SELECT has at most one ORDER BY.                                        *)
(***************************************************************************)
C8_OrderDescExclusive ==
  kind = "select"
  => LET o == heap[sel.options]
         sql == SelectCompile(sel, o).sql
     IN /\ ~ ("order" \in DOMAIN o /\ "desc" \in DOMAIN o)
        /\ KwCount(sql, "ORDER BY") <= 1
        /\ op.name = "SelectQuery.order"
             => /\ "order" \in DOMAIN o /\ o.order = ArgList(op.arg)
                /\ HasKw(sql, "ORDER BY") /\ ~ HasKw(sql, "DESC")
        /\ op.name = "SelectQuery.desc"
             => /\ "desc" \in DOMAIN o /\ o.desc = ArgList(op.arg)
                /\ HasKw(sql, "ORDER BY") /\ HasKw(sql, "DESC")

\* desc was just called on a query that had an order directive when it was
\* serialized and restored
C8_Witness ==
  /\ kind = "select"
  /\ op.name = "SelectQuery.desc"
  /\ restored # <<>>
  /\ "order" \in DOMAIN heap[restored[1].options]
  /\ "desc" \in DOMAIN heap[sel.options]

(***************************************************************************)
(* C9: once onConflict has been called on an InsertQuery, every later      *)
(* onConflict call throws, leaves the conflict spec unchanged and          *)
(* dispatches nothing.                                                     *)
(***************************************************************************)
C9_SecondOnConflictRejected ==
  [][(/\ kind = "insert"
      /\ "onConflict" \in DOMAIN ins.options
      /\ op'.name = "InsertQuery.onConflict")
     => (/\ error' = "On conflict clause is already specified"
         /\ ins'.options.onConflict = ins.options.onConflict
         /\ sent' = <<>>
         /\ nQuery' = nQuery)]_vars

C9_Witness ==
  /\ op.name = "InsertQuery.onConflict"
  /\ error = "On conflict clause is already specified"
  /\ "action" \in DOMAIN ins.options.onConflict
  /\ ins.options.onConflict.action = "update"
  /\ ins.options.onConflict.fields = <<A>>
  /\ op.arg = ArgArray(<<A, B>>)

(***************************************************************************)
(* C10: SelectQuery.from(db, query.toObject()) compiles to the same SQL    *)
(* and arguments as the query itself compiles to at that moment.           *)
(***************************************************************************)
C10_RoundTrip ==
  kind = "select"
  => LET r == SelectQueryFrom(heap, toObject(sel))
     IN SelectCompile(r.query, r.heap[r.query.options])
          = SelectCompile(sel, heap[sel.options])

C10_Witness ==
  /\ op.name = "SelectQuery.from"
  /\ Len(sel.where) = 2
  /\ DOMAIN heap[sel.options] = {"desc", "limit", "offset"}
  /\ heap[restored[1].options] = heap[sel.options]

(***************************************************************************)
(* C11: every dispatched INSERT that contains ON CONFLICT (<fields>) has a *)
(* resolution action right after it: DO NOTHING, or DO UPDATE SET with at  *)
(* least one assignment.                                                   *)
(***************************************************************************)
\* the tokens that follow the closing parenthesis of ON CONFLICT (...)
AfterConflictTarget(sql) ==
  LET rest == After(sql, "ON CONFLICT") IN After(rest, ")")

C11_ConflictHasAction ==
  \A r \in 1..Len(sent) :
    (sent[r].by = "insert" /\ HasKw(sent[r].sql, "ON CONFLICT"))
    => LET action == AfterConflictTarget(sent[r].sql)
       IN \/ Len(action) >= 1 /\ action[1] = Kw("DO NOTHING")
          \/ /\ Len(action) >= 5
             /\ action[1] = Kw("DO UPDATE")
             /\ action[2] = Kw("SET")
             /\ action[3].k = "id"
             /\ action[4] = OpTok(<<"=">>)
             /\ action[5].k = "ph"

====
